---- MODULE Spec2Model ----
(***************************************************************************)
(* The two CGI scripts of the repository as state machines.                *)
(*                                                                         *)
(*   src/scripts/cgi-1.py      EnvironmentDumpHandler ("envdump")          *)
(*   src/www/scripts/cgi-3.py  LargeOutputHandler     ("large")            *)
(*                                                                         *)
(* A text is a sequence of pieces, a piece is a string, and the bytes of a  *)
(* text are its pieces one after the other (all characters are ASCII, one  *)
(* byte each).  The texts of cgi-1.py are spelled one character to a       *)
(* piece, since html.escape and the sort work on characters; the literals  *)
(* of cgi-3.py are one piece each, its numbers one digit to a piece.       *)
(*                                                                         *)
(* print(x) writes x and then a newline to sys.stdout.  What sys.stdout is *)
(* the interpreter decides when it starts: None when file descriptor 1 is  *)
(* closed (print then does nothing), a block-buffered text stream when it  *)
(* is a pipe or a file, an unbuffered one under python3 -u.  A buffered    *)
(* stream hands bytes to the descriptor only when its buffers run full and *)
(* when the interpreter flushes it at exit, so a closed or stalled stream  *)
(* is met at one of those writes, not at the print whose bytes are cut.    *)
(* The standard output of an invocation is the first sent[p] bytes of the  *)
(* chunks in written[p]: both layers of sys.stdout are queues.  sent[p]    *)
(* counts what the descriptor accepted; a pipe holds bytes until its       *)
(* reader collects them, so a reader that leaves may have collected less.  *)
(* File descriptor 1 is a pipe, as a CGI runner gives it: a write of at    *)
(* most a page is taken whole or not at all, a longer one can come back    *)
(* short when the reader closes, and then the script runs on until the     *)
(* next write to the descriptor fails.  The pipe fills page by page, and   *)
(* puts the odd bytes of a write into its last page when they fit there.   *)
(* A terminal, whose text stream is line-buffered, is not among the        *)
(* standard outputs here.                                                  *)
(***************************************************************************)
EXTENDS Integers, Sequences, FiniteSets

VARIABLES
    invs,       \* the invocations the runner started
    script,     \* script[p]: which script invocation p runs
    environ,    \* environ[p]: os.environ of p's process, in iteration order
    stdin,      \* stdin[p]: the request body on p's standard input
    stdout,     \* stdout[p]: what the interpreter made sys.stdout for p
    reader,     \* reader[p]: what the other end of p's standard output does
    pc,         \* pc[p]: the statement p executes next
    keys,       \* keys[p]: the names the iterator of os.environ has listed
    yielded,    \* yielded[p]: the (key, value) items that iterator has yielded
    snapshot,   \* snapshot[p]: the list sorted(os.environ.items()) of cgi-1.py
    idx,        \* idx[p]: how many items the for statement has fetched
    written,    \* written[p]: the chunks print has written to sys.stdout
    pending,    \* pending[p]: bytes waiting in the text layer of sys.stdout
    buffered,   \* buffered[p]: bytes waiting in its binary buffer
    sent,       \* sent[p]: bytes file descriptor 1 has accepted
    tail,       \* tail[p]: how far the last page of p's pipe is filled
    captured,   \* history: environ[p] as it was when line 25 began
    torn,       \* history: environ[p] was changed while line 25 was reading it
    changes,    \* how often another actor has changed an environment
    runs,       \* how many invocations the runner has started in slot 1
    prev        \* the response body the runner collected from the previous run

vars == <<invs, script, environ, stdin, stdout, reader, pc, keys, yielded, snapshot,
          idx, written, pending, buffered, sent, tail, captured, torn, changes,
          runs, prev>>

----------------------------------------------------------------------------
(* Bounds of the model *)

\* longest environment (number of variables) an invocation starts with
MaxEnvLen == 3

\* how many times another actor changes an environment during the runs
MaxEnvChanges == 1

\* how many times the runner invokes cgi-3.py one after the other
MaxRuns == 2

\* the two invocation slots of the runner
Invocations == {1, 2}

----------------------------------------------------------------------------
(* Characters and string literals of the sources *)

NL == "\n"

\* cgi-1.py lines 6-23: the literal of the first print
PreambleText ==
       <<NL>>
    \o <<"<", "!", "D", "O", "C", "T", "Y", "P", "E", " ", "h", "t", "m", "l", ">", NL>>
    \o <<"<", "h", "t", "m", "l", ">", NL>>
    \o <<"<", "h", "e", "a", "d", ">", NL>>
    \o <<" ", " ", " ", " ", "<", "t", "i", "t", "l", "e", ">", "C", "G", "I", " ", "E", "n", "v", "i", "r", "o", "n", "m", "e", "n", "t", " ", "D", "u", "m", "p", "<", "/", "t", "i", "t", "l", "e", ">", NL>>
    \o <<" ", " ", " ", " ", "<", "s", "t", "y", "l", "e", ">", NL>>
    \o <<" ", " ", " ", " ", " ", " ", " ", " ", "b", "o", "d", "y", " ", "{", " ", "f", "o", "n", "t", "-", "f", "a", "m", "i", "l", "y", ":", " ", "m", "o", "n", "o", "s", "p", "a", "c", "e", ";", " ", "b", "a", "c", "k", "g", "r", "o", "u", "n", "d", ":", " ", "#", "f", "4", "f", "4", "f", "4", ";", " ", "}", NL>>
    \o <<" ", " ", " ", " ", " ", " ", " ", " ", "t", "a", "b", "l", "e", " ", "{", " ", "b", "o", "r", "d", "e", "r", "-", "c", "o", "l", "l", "a", "p", "s", "e", ":", " ", "c", "o", "l", "l", "a", "p", "s", "e", ";", " ", "w", "i", "d", "t", "h", ":", " ", "1", "0", "0", "%", ";", " ", "}", NL>>
    \o <<" ", " ", " ", " ", " ", " ", " ", " ", "t", "h", ",", " ", "t", "d", " ", "{", " ", "b", "o", "r", "d", "e", "r", ":", " ", "1", "p", "x", " ", "s", "o", "l", "i", "d", " ", "#", "9", "9", "9", ";", " ", "p", "a", "d", "d", "i", "n", "g", ":", " ", "6", "p", "x", ";", " ", "}", NL>>
    \o <<" ", " ", " ", " ", " ", " ", " ", " ", "t", "h", " ", "{", " ", "b", "a", "c", "k", "g", "r", "o", "u", "n", "d", ":", " ", "#", "d", "d", "d", ";", " ", "}", NL>>
    \o <<" ", " ", " ", " ", " ", " ", " ", " ", "t", "r", ":", "n", "t", "h", "-", "c", "h", "i", "l", "d", "(", "e", "v", "e", "n", ")", " ", "{", " ", "b", "a", "c", "k", "g", "r", "o", "u", "n", "d", ":", " ", "#", "e", "e", "e", ";", " ", "}", NL>>
    \o <<" ", " ", " ", " ", "<", "/", "s", "t", "y", "l", "e", ">", NL>>
    \o <<"<", "/", "h", "e", "a", "d", ">", NL>>
    \o <<"<", "b", "o", "d", "y", ">", NL>>
    \o <<"<", "h", "1", ">", "C", "G", "I", " ", "E", "n", "v", "i", "r", "o", "n", "m", "e", "n", "t", " ", "V", "a", "r", "i", "a", "b", "l", "e", "s", "<", "/", "h", "1", ">", NL>>
    \o <<"<", "t", "a", "b", "l", "e", ">", NL>>
    \o <<"<", "t", "r", ">", "<", "t", "h", ">", "V", "a", "r", "i", "a", "b", "l", "e", "<", "/", "t", "h", ">", "<", "t", "h", ">", "V", "a", "l", "u", "e", "<", "/", "t", "h", ">", "<", "/", "t", "r", ">", NL>>

\* mutant of ClosingText: the table is left open
ClosingTextOpenTable ==
       <<NL>>
    \o <<"<", "/", "b", "o", "d", "y", ">", NL>>
    \o <<"<", "/", "h", "t", "m", "l", ">", NL>>

\* cgi-1.py lines 31-35: the literal of the last print
ClosingText ==
       <<NL>>
    \o <<"<", "/", "t", "a", "b", "l", "e", ">", NL>>
    \o <<"<", "/", "b", "o", "d", "y", ">", NL>>
    \o <<"<", "/", "h", "t", "m", "l", ">", NL>>

\* cgi-1.py lines 27-28: the fixed parts of the row f-string
RowOpen == <<"<", "t", "r", ">", "<", "t", "d", ">">>

RowMid == <<"<", "/", "t", "d", ">", "<", "t", "d", ">">>

RowClose == <<"<", "/", "t", "d", ">", "<", "/", "t", "r", ">">>

\* cgi-3.py lines 3-5, 9, 11: each literal one piece
DoctypeText == <<"<!DOCTYPE html>">>

HtmlBodyText == <<"<html><body>">>

H1Text == <<"<h1>Huge CGI Response</h1>">>

LinePrefix == <<"<p>Line ">>

LineSuffix == <<": This is a large CGI response test.</p>">>

EndText == <<"</body></html>">>

\* the entities html.escape writes
Amp == <<"&", "a", "m", "p", ";">>

Lt == <<"&", "l", "t", ";">>

Gt == <<"&", "g", "t", ";">>

Quot == <<"&", "q", "u", "o", "t", ";">>

Apos == <<"&", "#", "x", "2", "7", ";">>

----------------------------------------------------------------------------
(* Pure functions *)

\* Python compares strings by code point (the characters the model's
\* environments use)
Ord(c) ==
    CASE c = "\"" -> 34 [] c = "&" -> 38 [] c = "'" -> 39
      [] c = "1" -> 49 [] c = "<" -> 60 [] c = ">" -> 62
      [] c = "A" -> 65 [] c = "Z" -> 90
      [] c = "a" -> 97 [] c = "c" -> 99 [] c = "i" -> 105
      [] c = "p" -> 112 [] c = "r" -> 114 [] c = "s" -> 115
      [] c = "t" -> 116

\* str.__lt__: a < b in lexicographic order of code points
StrLess(a, b) ==
    \E k \in 1..Len(b) :
        /\ k - 1 <= Len(a)
        /\ \A j \in 1..(k - 1) : a[j] = b[j]
        /\ (k = Len(a) + 1 \/ Ord(a[k]) < Ord(b[k]))

\* mutant of ItemLess: the items compared value first
ItemLessValueFirst(x, y) ==
    \/ StrLess(x[2], y[2])
    \/ (x[2] = y[2] /\ StrLess(x[1], y[1]))

\* tuple.__lt__ on the (key, value) items: by key, then by value
ItemLess(x, y) ==
    \/ StrLess(x[1], y[1])
    \/ (x[1] = y[1] /\ StrLess(x[2], y[2]))

\* one step of the stable sort: x goes behind every item that is not greater
Insert(s, x) ==
    LET n == Cardinality({j \in 1..Len(s) : ~ItemLess(x, s[j])})
    IN  SubSeq(s, 1, n) \o <<x>> \o SubSeq(s, n + 1, Len(s))

\* sorted(os.environ.items()): a new list, ascending, stable
RECURSIVE sorted(_)
sorted(items) ==
    IF items = <<>> THEN <<>>
    ELSE CHOOSE r \in
             { Insert(s, items[Len(items)]) :
                   s \in {sorted(SubSeq(items, 1, Len(items) - 1))} } : TRUE

\* str.replace(c, r) for a one-character c
RECURSIVE Replace(_, _, _)
Replace(s, c, r) ==
    IF s = <<>> THEN <<>>
    ELSE (IF Head(s) = c THEN r ELSE <<Head(s)>>) \o Replace(Tail(s), c, r)

\* mutant of escape: html.escape(s, quote=False) leaves the quotes alone
escapeNoQuote(s) ==
    CHOOSE s3 \in
        { Replace(s2, ">", Gt) : s2 \in
        { Replace(s1, "<", Lt) : s1 \in
        { Replace(s0, "&", Amp) : s0 \in {s} }}} : TRUE

\* html.escape(s) with quote=True: five statements s = s.replace(c, r),
\* "&" first; s0 is the argument and s1..s5 the value of s after each
escape(s) ==
    CHOOSE s5 \in
        { Replace(s4, "'", Apos) : s4 \in
        { Replace(s3, "\"", Quot) : s3 \in
        { Replace(s2, ">", Gt) : s2 \in
        { Replace(s1, "<", Lt) : s1 \in
        { Replace(s0, "&", Amp) : s0 \in {s} }}}}} : TRUE

\* cgi-1.py lines 27-28: the row f-string for one (key, value) item
Row(item) ==
    RowOpen \o escape(item[1]) \o RowMid \o escape(item[2]) \o RowClose

Digits == <<"0", "1", "2", "3", "4", "5", "6", "7", "8", "9">>

\* format(i) of the f-string's {i}: decimal, no padding
RECURSIVE FormatInt(_)
FormatInt(n) ==
    IF n < 10 THEN <<Digits[n + 1]>>
    ELSE FormatInt(n \div 10) \o <<Digits[(n % 10) + 1]>>

\* mutant of Line: the lines numbered from 1
LineFromOne(i) == LinePrefix \o FormatInt(i + 1) \o LineSuffix

\* cgi-3.py line 9: the paragraph f-string
Line(i) == LinePrefix \o FormatInt(i) \o LineSuffix

\* cgi-3.py line 8: range(1000)
LineCount == 1000

----------------------------------------------------------------------------
(* Inputs *)

Names == { <<"A">>, <<"Z">>, <<"a">>, <<"<", "&", ">", "\"", "'">> }

Values == { <<"1">>, <<"<", "s", "c", "r", "i", "p", "t", ">", "&", "\"", "'">> }

\* environments of n variables: distinct names, any iteration order
EnvsOfLen(n) ==
    { e \in [1..n -> Names \X Values] :
        \A i, j \in 1..n : i # j => e[i][1] # e[j][1] }

Envs == UNION { EnvsOfLen(n) : n \in 0..MaxEnvLen }

\* the environments of the runs where the environment is not what is studied
FewEnvs ==
    { <<>>,
      << << <<"Z">>, <<"1">> >>,
         << <<"A">>, <<"<", "s", "c", "r", "i", "p", "t", ">", "&", "\"", "'">> >> >> }

Bodies == { <<>>, <<"a", "c">> }

Scripts == {"envdump", "large"}

FirstPc(s) == IF s = "envdump" THEN "preamble" ELSE "doctype"


\* what sys.stdout can be: None (file descriptor 1 is closed when the
\* interpreter starts), block-buffered (a pipe or a file), or unbuffered
\* (python3 -u)
Stdouts == {"none", "buffered", "unbuffered"}

\* what the other end of the pipe does: reads to the end, closes the stream
\* at some moment, or stops reading at some moment while it keeps the stream
\* open.  A reader that has closed the stream is "gone"
Readers == {"reads", "leaves", "stalls"}

\* how an invocation can have ended: exit status 0; an exception a statement
\* did not catch; the script ran to its end but the flush at exit failed
\* (exit status 120); and, not ended but never to go on, a write that does
\* not return
Ended == {"done", "failed", "flushfailed", "blocked"}

----------------------------------------------------------------------------
(* Writing to standard output *)

\* the number of bytes in the pieces lo..hi of a text
RECURSIVE PieceBytes(_, _, _)
PieceBytes(text, lo, hi) ==
    IF lo > hi THEN 0
    ELSE IF lo = hi THEN Len(text[lo])
    ELSE CHOOSE n \in
             { PieceBytes(text, lo, mid) + PieceBytes(text, mid + 1, hi) :
                   mid \in {(lo + hi) \div 2} } : TRUE

\* len(text.encode())
TextBytes(text) == PieceBytes(text, 1, Len(text))

\* io.TextIOWrapper: the text layer passes its pending bytes on when they
\* reach this size
ChunkSize == 8192

\* io.BufferedWriter: the size of the binary buffer.  The interpreter opens
\* file descriptor 1 with the default buffering, which takes the size from
\* os.fstat(1).st_blksize: 4096 for a pipe, and for a regular file here.  A
\* chunk of the text layer is larger and so goes through to the descriptor
BufferSize == 4096

\* PIPE_BUF, one page of the pipe: a write of at most this size is taken
\* whole or not at all, a larger one in pieces
PipeBuf == 4096

\* what of a write of n bytes is not whole pages: the pipe takes these bytes
\* first, into its last page when that has room for them and is not yet read
Chars(n) == n % PipeBuf

\* the last page of the pipe has room for the odd bytes of a write of n
Fits(w, n) == Chars(n) > 0 /\ w.tail + Chars(n) <= PipeBuf

\* where the last page of the pipe is filled to after a write of n bytes that
\* began a new page
TailNew(n) == IF Chars(n) > 0 THEN Chars(n) ELSE PipeBuf

\* and after one whose odd bytes went into the last page
TailMerged(w, n) == IF n > Chars(n) THEN PipeBuf ELSE w.tail + Chars(n)

\* the counts a write of n bytes can stop at short of n: whole new pages,
\* or the odd bytes in the last page and whole new pages after them
ShortCounts(w, n) ==
    { j * PipeBuf : j \in 1..((n - 1) \div PipeBuf) }
    \cup ( IF Fits(w, n)
           THEN { Chars(n) + j * PipeBuf : j \in 0..(((n - Chars(n)) \div PipeBuf) - 1) }
           ELSE {} )

\* the layers of sys.stdout of invocation p and its pipe before a statement.
\* st tells how the statement goes ("ok", "raised", "blocked"), got what the
\* last write(2) returned, taken how many of the statement's writes got
\* their text into sys.stdout
Layers(p) ==
    [pending |-> pending[p], buffered |-> buffered[p], sent |-> sent[p],
     tail |-> tail[p], rd |-> reader[p], st |-> "ok", got |-> 0, taken |-> 0]

\* one write(2) of n bytes to file descriptor 1, the outcomes it can have.
\* All n are accepted, into the last page when they fit and the reader has
\* left something unread, else from a new page on.  Or the reader closes the
\* stream: before the call, or while it waits with nothing accepted, the call
\* fails with EPIPE and BrokenPipeError is raised; while it waits with a part
\* accepted it returns the short count; every later write fails.  Or the
\* reader has stopped reading and the pipe is full: the call never returns,
\* with a part accepted or, when the pipe holds something and the last page
\* has no room, with nothing.  With a reader that reads to the end every
\* write is accepted whatever the pipe holds, and its pages are not followed
RawWrite(w, n) ==
    IF w.rd = "gone"
    THEN { [w EXCEPT !.st = "raised", !.got = 0] }
    ELSE IF w.rd = "reads"
    THEN { [w EXCEPT !.sent = @ + n, !.got = n] }
    ELSE { [w EXCEPT !.sent = @ + n, !.got = n, !.tail = t] :
              t \in {TailNew(n)} \cup (IF Fits(w, n) THEN {TailMerged(w, n)} ELSE {}) }
         \cup ( IF w.rd = "leaves"
                THEN { [w EXCEPT !.rd = "gone", !.st = "raised", !.got = 0] }
                     \cup { [w EXCEPT !.rd = "gone", !.sent = @ + k, !.got = k,
                                      !.tail = PipeBuf] :
                               k \in ShortCounts(w, n) }
                ELSE { [w EXCEPT !.st = "blocked", !.sent = @ + k, !.got = k,
                                 !.tail = IF k > Chars(n) THEN PipeBuf ELSE @ + k] :
                          k \in ShortCounts(w, n) }
                     \cup ( IF w.sent > 0 /\ ~Fits(w, n)
                            THEN { [w EXCEPT !.st = "blocked", !.got = 0] }
                            ELSE {} ) )

\* BufferedWriter.flush(): write(2) again and again until the buffer is empty
RECURSIVE FlushBuffer(_)
FlushBuffer(w) ==
    IF w.st # "ok" \/ w.buffered = 0
    THEN {w}
    ELSE UNION { FlushBuffer([r EXCEPT !.buffered = @ - r.got]) :
                    r \in RawWrite(w, w.buffered) }

\* BufferedWriter.write, the buffer empty: as long as more than a whole
\* buffer remains it is written to the descriptor, what remains after that is
\* kept in the buffer; an exception drops it
RECURSIVE WriteThrough(_, _)
WriteThrough(w, remaining) ==
    IF w.st # "ok"
    THEN {w}
    ELSE IF remaining > BufferSize
    THEN UNION { WriteThrough(r, remaining - r.got) : r \in RawWrite(w, remaining) }
    ELSE { [w EXCEPT !.buffered = remaining] }

\* BufferedWriter.write(n bytes): kept if they fit; else the buffer is
\* flushed first and the n bytes are written through
BufWrite(w, n) ==
    IF n <= BufferSize - w.buffered
    THEN { [w EXCEPT !.buffered = @ + n] }
    ELSE UNION { WriteThrough(f, n) : f \in FlushBuffer(w) }

\* TextIOWrapper passes its pending bytes on, and has none pending then
\* whatever comes of it: to the binary buffer, or under -u to the descriptor
\* with one write(2), whose count nobody looks at
WriteFlush(kind, w) ==
    IF w.pending = 0
    THEN {w}
    ELSE IF kind = "unbuffered"
    THEN RawWrite([w EXCEPT !.pending = 0], w.pending)
    ELSE BufWrite([w EXCEPT !.pending = 0], w.pending)

\* sys.stdout.write(b bytes of text): what is pending is passed on first if
\* the new text would take it over ChunkSize; then the text is pending, and
\* is passed on once ChunkSize is reached, or at once under -u
TextWrite(kind, w, b) ==
    UNION { IF w1.st # "ok"
            THEN {w1}
            ELSE IF kind = "unbuffered" \/ w1.pending + b >= ChunkSize
            THEN WriteFlush(kind, [w1 EXCEPT !.pending = @ + b, !.taken = @ + 1])
            ELSE { [w1 EXCEPT !.pending = @ + b, !.taken = @ + 1] }
          : w1 \in IF w.pending + b > ChunkSize THEN WriteFlush(kind, w) ELSE {w} }

\* sys.stdout.flush(): the pending text to the buffer, the buffer to the
\* descriptor
Flush(kind, w) ==
    UNION { IF kind = "unbuffered" THEN {w1} ELSE FlushBuffer(w1) :
               w1 \in WriteFlush(kind, w) }

\* where invocation p is after a statement that wrote: at next, or dead by
\* the BrokenPipeError nothing catches (the stream stays closed, so the flush
\* at exit puts nothing more on it), or in the write for ever
After(w, next, dead) ==
    IF w.st = "ok" THEN next ELSE IF w.st = "raised" THEN dead ELSE "blocked"

\* print(text) by invocation p, going on at next: sys.stdout.write(text),
\* then sys.stdout.write("\n"); nothing at all when sys.stdout is None.  A
\* write that raises ends the statement
print(p, text, next) ==
    IF stdout[p] = "none"
    THEN /\ pc' = [pc EXCEPT ![p] = next]
         /\ UNCHANGED <<written, pending, buffered, sent, tail, reader>>
    ELSE \E t \in {text} : \E b \in {TextBytes(t)} :
         \E w \in UNION { IF w1.st = "ok" THEN TextWrite(stdout[p], w1, 1) ELSE {w1} :
                             w1 \in TextWrite(stdout[p], Layers(p), b) } :
            /\ written' = [written EXCEPT ![p] =
                             IF w.taken = 2 THEN Append(@, t \o <<NL>>)
                             ELSE IF w.taken = 1 THEN Append(@, t)
                             ELSE @]
            /\ pending' = [pending EXCEPT ![p] = w.pending]
            /\ buffered' = [buffered EXCEPT ![p] = w.buffered]
            /\ sent' = [sent EXCEPT ![p] = w.sent]
            /\ tail' = [tail EXCEPT ![p] = w.tail]
            /\ reader' = [reader EXCEPT ![p] = w.rd]
            /\ pc' = [pc EXCEPT ![p] = After(w, next, "failed")]

\* the script is over, at its end ("exit") or by an exception other than
\* that of a write ("raised"): the interpreter flushes sys.stdout before the
\* process exits.  After the end of the script the status is 0, or 120 when
\* the flush fails; after an exception it is not 0 either way
Exit(p) ==
    /\ p \in invs /\ pc[p] \in {"exit", "raised"}
    /\ \E next \in {IF pc[p] = "exit" THEN "done" ELSE "failed"},
          dead \in {IF pc[p] = "exit" THEN "flushfailed" ELSE "failed"} :
          IF stdout[p] = "none"
          THEN /\ pc' = [pc EXCEPT ![p] = next]
               /\ UNCHANGED <<pending, buffered, sent, tail, reader>>
          ELSE \E w \in Flush(stdout[p], Layers(p)) :
               /\ pending' = [pending EXCEPT ![p] = w.pending]
               /\ buffered' = [buffered EXCEPT ![p] = w.buffered]
               /\ sent' = [sent EXCEPT ![p] = w.sent]
               /\ tail' = [tail EXCEPT ![p] = w.tail]
               /\ reader' = [reader EXCEPT ![p] = w.rd]
               /\ pc' = [pc EXCEPT ![p] = After(w, next, dead)]
    /\ UNCHANGED <<invs, script, environ, stdin, stdout, keys, yielded,
                   snapshot, idx, written, captured, torn, changes, runs, prev>>

----------------------------------------------------------------------------
(* cgi-1.py *)

\* lines 6-23
PrintPreamble(p) ==
    /\ p \in invs /\ script[p] = "envdump" /\ pc[p] = "preamble"
    /\ print(p, PreambleText, "listkeys")
    /\ UNCHANGED <<invs, script, environ, stdin, stdout, keys, yielded,
                   snapshot, idx, captured, torn, changes, runs, prev>>

\* the name of the k-th variable of an environment
NameOf(env, k) == env[k][1]

\* os.environ[name], for a name the environment holds
ValueOf(env, name) ==
    LET k == CHOOSE k \in 1..Len(env) : env[k][1] = name IN env[k][2]

\* line 25, sorted() starts to iterate os.environ.items(): the iterator of
\* os.environ first lists the keys the mapping holds
ListKeys(p) ==
    /\ p \in invs /\ script[p] = "envdump" /\ pc[p] = "listkeys"
    /\ keys' = [keys EXCEPT ![p] = [k \in 1..Len(environ[p]) |-> NameOf(environ[p], k)]]
    /\ yielded' = [yielded EXCEPT ![p] = <<>>]
    /\ captured' = [captured EXCEPT ![p] = environ[p]]
    /\ pc' = [pc EXCEPT ![p] = "fetch"]
    /\ UNCHANGED <<invs, script, environ, stdin, stdout, reader, tail, snapshot, idx,
                   written, pending, buffered, sent, torn, changes, runs, prev>>

\* line 25, the next item of os.environ.items(): the value of the next
\* listed key is looked up in the mapping as it is now; a key that is gone
\* raises KeyError, which nothing catches
FetchItem(p) ==
    /\ p \in invs /\ script[p] = "envdump" /\ pc[p] = "fetch"
    /\ Len(yielded[p]) < Len(keys[p])
    /\ LET key == keys[p][Len(yielded[p]) + 1] IN
       IF \E k \in 1..Len(environ[p]) : NameOf(environ[p], k) = key
       THEN /\ yielded' = [yielded EXCEPT ![p] = Append(@, <<key, ValueOf(environ[p], key)>>)]
            /\ pc' = pc
       ELSE /\ yielded' = yielded
            /\ pc' = [pc EXCEPT ![p] = "raised"]
    /\ UNCHANGED <<invs, script, environ, stdin, stdout, reader, tail, keys, snapshot, idx,
                   written, pending, buffered, sent, captured, torn, changes, runs, prev>>

\* line 25, the items are exhausted: sorted() returns its list, which the
\* for statement iterates
SortEnviron(p) ==
    /\ p \in invs /\ script[p] = "envdump" /\ pc[p] = "fetch"
    /\ Len(yielded[p]) = Len(keys[p])
    /\ snapshot' = [snapshot EXCEPT ![p] = sorted(yielded[p])]
    /\ idx' = [idx EXCEPT ![p] = 0]
    /\ pc' = [pc EXCEPT ![p] = "loop"]
    /\ UNCHANGED <<invs, script, environ, stdin, stdout, reader, tail, keys, yielded,
                   written, pending, buffered, sent, captured, torn, changes, runs, prev>>

\* mutant of RowSource: the loop starts at the second item
RowSourceSkipFirst(p) == SubSeq(snapshot[p], 2, Len(snapshot[p]))

\* mutant of RowSource: every iteration sorts the environment anew
RowSourceLive(p) == sorted(environ[p])

\* the list the for statement iterates
RowSource(p) == snapshot[p]

\* lines 25-29: the for statement fetches the next item and the body
\* prints its row
PrintRow(p) ==
    /\ p \in invs /\ script[p] = "envdump" /\ pc[p] = "loop"
    /\ idx[p] < Len(RowSource(p))
    /\ idx' = [idx EXCEPT ![p] = @ + 1]
    /\ print(p, Row(RowSource(p)[idx[p] + 1]), "loop")
    /\ UNCHANGED <<invs, script, environ, stdin, stdout, keys, yielded,
                   snapshot, captured, torn, changes, runs, prev>>

\* lines 31-35: the list is exhausted
PrintClosing(p) ==
    /\ p \in invs /\ script[p] = "envdump" /\ pc[p] = "loop"
    /\ idx[p] >= Len(RowSource(p))
    /\ print(p, ClosingText, "exit")
    /\ UNCHANGED <<invs, script, environ, stdin, stdout, keys, yielded,
                   snapshot, idx, captured, torn, changes, runs, prev>>

EnvDumpStep(p) ==
    \/ PrintPreamble(p) \/ ListKeys(p) \/ FetchItem(p) \/ SortEnviron(p)
    \/ PrintRow(p) \/ PrintClosing(p)

\* os.environ[name] = value: an existing key keeps its place
PutEnv(env, name, value) ==
    IF \E k \in 1..Len(env) : env[k][1] = name
    THEN [k \in 1..Len(env) |->
            IF env[k][1] = name THEN <<name, value>> ELSE env[k]]
    ELSE Append(env, <<name, value>>)

\* del os.environ[name]
DelEnv(env, name) == SelectSeq(env, LAMBDA item : item[1] # name)

\* another thread of the process changes the environment mapping while the
\* script runs
SetEnv(p) ==
    /\ p \in invs /\ script[p] = "envdump"
    /\ pc[p] \notin Ended
    /\ changes < MaxEnvChanges
    /\ \/ \E name \in Names, value \in Values :
            /\ PutEnv(environ[p], name, value) # environ[p]
            /\ environ' = [environ EXCEPT ![p] = PutEnv(@, name, value)]
       \/ \E k \in 1..Len(environ[p]) :
            environ' = [environ EXCEPT ![p] = DelEnv(@, environ[p][k][1])]
    /\ changes' = changes + 1
    /\ torn' = [torn EXCEPT ![p] = @ \/ pc[p] = "fetch"]
    /\ UNCHANGED <<invs, script, stdin, stdout, reader, tail, pc, keys, yielded, snapshot,
                   idx, written, pending, buffered, sent, captured, runs, prev>>

----------------------------------------------------------------------------
(* cgi-3.py *)

\* line 3
PrintDoctype(p) ==
    /\ p \in invs /\ script[p] = "large" /\ pc[p] = "doctype"
    /\ print(p, DoctypeText, "htmlbody")
    /\ UNCHANGED <<invs, script, environ, stdin, stdout, keys, yielded,
                   snapshot, idx, captured, torn, changes, runs, prev>>

\* line 4
PrintHtmlBody(p) ==
    /\ p \in invs /\ script[p] = "large" /\ pc[p] = "htmlbody"
    /\ print(p, HtmlBodyText, "h1")
    /\ UNCHANGED <<invs, script, environ, stdin, stdout, keys, yielded,
                   snapshot, idx, captured, torn, changes, runs, prev>>

\* mutant of PrintH1: the script reads the request body and reports its
\* length where the heading was
PrintBodyLength(p) ==
    /\ p \in invs /\ script[p] = "large" /\ pc[p] = "h1"
    /\ print(p, FormatInt(Len(stdin[p])), "lines")
    /\ UNCHANGED <<invs, script, environ, stdin, stdout, keys, yielded,
                   snapshot, idx, captured, torn, changes, runs, prev>>

\* line 5
PrintH1(p) ==
    /\ p \in invs /\ script[p] = "large" /\ pc[p] = "h1"
    /\ print(p, H1Text, "lines")
    /\ UNCHANGED <<invs, script, environ, stdin, stdout, keys, yielded,
                   snapshot, idx, captured, torn, changes, runs, prev>>

\* lines 8-9: the for statement fetches the next i of range(1000), the
\* idx[p]-th counting from 0, and the body prints its line
PrintLine(p) ==
    /\ p \in invs /\ script[p] = "large" /\ pc[p] = "lines"
    /\ idx[p] < LineCount
    /\ idx' = [idx EXCEPT ![p] = @ + 1]
    /\ print(p, Line(idx[p]), "lines")
    /\ UNCHANGED <<invs, script, environ, stdin, stdout, keys, yielded,
                   snapshot, captured, torn, changes, runs, prev>>

\* mutant of PrintEnd: the loop is left one iteration too late, which never
\* comes
PrintEndNever(p) ==
    /\ p \in invs /\ script[p] = "large" /\ pc[p] = "lines"
    /\ idx[p] > LineCount
    /\ print(p, EndText, "exit")
    /\ UNCHANGED <<invs, script, environ, stdin, stdout, keys, yielded,
                   snapshot, idx, captured, torn, changes, runs, prev>>

\* line 11: the range is exhausted
PrintEnd(p) ==
    /\ p \in invs /\ script[p] = "large" /\ pc[p] = "lines"
    /\ idx[p] >= LineCount
    /\ print(p, EndText, "exit")
    /\ UNCHANGED <<invs, script, environ, stdin, stdout, keys, yielded,
                   snapshot, idx, captured, torn, changes, runs, prev>>

LargeStep(p) ==
    PrintDoctype(p) \/ PrintHtmlBody(p) \/ PrintH1(p) \/ PrintLine(p) \/ PrintEnd(p)

----------------------------------------------------------------------------
(* The runner *)

\* the runner has read a complete response and runs cgi-3.py again, with
\* another environment and another request body
Reinvoke(p) ==
    /\ p \in invs /\ script[p] = "large" /\ pc[p] = "done"
    /\ runs < MaxRuns
    /\ runs' = runs + 1
    /\ prev' = <<[body |-> written[p], bytes |-> sent[p],
                  environ |-> environ[p], stdin |-> stdin[p]]>>
    /\ \E e \in FewEnvs \ {environ[p]} : environ' = [environ EXCEPT ![p] = e]
    /\ \E b \in Bodies \ {stdin[p]} : stdin' = [stdin EXCEPT ![p] = b]
    /\ pc' = [pc EXCEPT ![p] = FirstPc("large")]
    /\ written' = [written EXCEPT ![p] = <<>>]
    /\ pending' = [pending EXCEPT ![p] = 0]
    /\ buffered' = [buffered EXCEPT ![p] = 0]
    /\ sent' = [sent EXCEPT ![p] = 0]
    /\ tail' = [tail EXCEPT ![p] = PipeBuf]
    /\ idx' = [idx EXCEPT ![p] = 0]
    /\ UNCHANGED <<invs, script, stdout, reader, keys, yielded, snapshot, captured,
                   torn, changes>>

----------------------------------------------------------------------------
(* Specifications *)

\* what Init leaves to the choice of started, scripts, environments, bodies,
\* standard outputs and readers
Start(started, scr, env, body, so, rd) ==
    /\ invs = started
    /\ script = scr
    /\ environ = env
    /\ stdin = body
    /\ stdout = so
    /\ reader = rd
    /\ pc = [p \in Invocations |-> FirstPc(scr[p])]
    /\ keys = [p \in Invocations |-> <<>>]
    /\ yielded = [p \in Invocations |-> <<>>]
    /\ snapshot = [p \in Invocations |-> <<>>]
    /\ captured = [p \in Invocations |-> <<>>]
    /\ torn = [p \in Invocations |-> FALSE]
    /\ idx = [p \in Invocations |-> 0]
    /\ written = [p \in Invocations |-> <<>>]
    /\ pending = [p \in Invocations |-> 0]
    /\ buffered = [p \in Invocations |-> 0]
    /\ sent = [p \in Invocations |-> 0]
    /\ tail = [p \in Invocations |-> PipeBuf]
    /\ changes = 0
    /\ runs = 1
    /\ prev = <<>>

\* the same value for both slots, or a value for slot 1 and the default for
\* slot 2
Both(x) == [p \in Invocations |-> x]

First(x, rest) == [p \in Invocations |-> IF p = 1 THEN x ELSE rest]

\* one invocation, of either script.  Every environment is run with a reader
\* that reads to the end; a reader that leaves or stalls is run on the
\* environments of FewEnvs (cgi-1.py, buffered and unbuffered) and on the
\* empty one (cgi-3.py, which reads none, with the block-buffered standard
\* output of its shebang line)
Init ==
    \E s \in Scripts, e \in Envs, b \in Bodies, o \in Stdouts, r \in Readers :
        /\ s = "large" => e \in FewEnvs
        /\ s = "envdump" => b = <<>>
        /\ r # "reads" => /\ o # "none" /\ e \in FewEnvs /\ b = <<>>
                          /\ s = "large" => (e = <<>> /\ o = "buffered")
        /\ Start({1}, Both(s), First(e, <<>>), First(b, <<>>), Both(o), Both(r))

Next == \E p \in Invocations : EnvDumpStep(p) \/ LargeStep(p) \/ Exit(p)

Spec == Init /\ [][Next]_vars

\* the operating system keeps scheduling a process that can take a step
FairSpec ==
    /\ Init /\ [][Next]_vars
    /\ \A p \in Invocations : WF_vars(EnvDumpStep(p) \/ LargeStep(p) \/ Exit(p))

\* two invocations of cgi-1.py at once, each with its own process, and
\* another thread that changes their environments
InitConc ==
    \E e1 \in FewEnvs, e2 \in FewEnvs, o \in Stdouts \ {"none"} :
        Start(Invocations, Both("envdump"), First(e1, e2), Both(<<>>),
              Both(o), Both("reads"))

NextConc == \E p \in Invocations : EnvDumpStep(p) \/ Exit(p) \/ SetEnv(p)

SpecConc == InitConc /\ [][NextConc]_vars

\* cgi-3.py invoked again and again
InitRepeat ==
    \E e \in FewEnvs, b \in Bodies, o \in Stdouts :
        Start({1}, Both("large"), First(e, <<>>), First(b, <<>>),
              Both(o), Both("reads"))

NextRepeat == \E p \in Invocations : LargeStep(p) \/ Exit(p) \/ Reinvoke(p)

SpecRepeat == InitRepeat /\ [][NextRepeat]_vars

----------------------------------------------------------------------------
(* Reading the output back *)

RECURSIVE Flatten(_)
Flatten(chunks) ==
    IF chunks = <<>> THEN <<>> ELSE Head(chunks) \o Flatten(Tail(chunks))

\* the number of bytes in the chunks lo..hi
RECURSIVE Bytes(_, _, _)
Bytes(chunks, lo, hi) ==
    IF lo > hi THEN 0
    ELSE IF lo = hi THEN TextBytes(chunks[lo])
    ELSE LET mid == (lo + hi) \div 2
         IN  Bytes(chunks, lo, mid) + Bytes(chunks, mid + 1, hi)

\* how many of the chunks from the k-th on lie wholly within the next n bytes
RECURSIVE Whole(_, _, _)
Whole(chunks, k, n) ==
    IF k > Len(chunks) THEN 0
    ELSE LET b == TextBytes(chunks[k])
         IN  IF b > n THEN 0 ELSE 1 + Whole(chunks, k + 1, n - b)

\* the chunks that have reached the standard output of p whole
Out(p) == SubSeq(written[p], 1, Whole(written[p], 1, sent[p]))

\* everything p wrote has reached its standard output
AllOut(p) == sent[p] = Bytes(written[p], 1, Len(written[p]))

\* the bytes on the standard output of an invocation of cgi-1.py, whose
\* pieces are one byte each
Stream(p) == SubSeq(Flatten(written[p]), 1, sent[p])

\* t occurs in s at position k
StartsAt(s, k, t) ==
    /\ k >= 1 /\ k + Len(t) - 1 <= Len(s)
    /\ t # <<>> => s[k] = t[1]
    /\ SubSeq(s, k, k + Len(t) - 1) = t

Occurrences(s, t) == {k \in 1..Len(s) : StartsAt(s, k, t)}

CountOcc(s, t) == Cardinality(Occurrences(s, t))

\* the five characters of markup and the entity that stands for each
Entity(c) ==
    CASE c = "&" -> <<"&", "a", "m", "p", ";">>
      [] c = "<" -> <<"&", "l", "t", ";">>
      [] c = ">" -> <<"&", "g", "t", ";">>
      [] c = "\"" -> <<"&", "q", "u", "o", "t", ";">>
      [] c = "'" -> <<"&", "#", "x", "2", "7", ";">>
      [] OTHER -> <<c>>

Markup == {"&", "<", ">", "\"", "'"}

\* s with every character of markup written as its entity
EntityForm(s) == Flatten([j \in 1..Len(s) |-> Entity(s[j])])

\* what a browser reads from a cell: the entities back to characters
RECURSIVE Unescape(_)
Unescape(s) ==
    IF s = <<>> THEN <<>>
    ELSE IF \E c \in Markup : StartsAt(s, 1, Entity(c))
    THEN LET c == CHOOSE c \in Markup : StartsAt(s, 1, Entity(c))
         IN  <<c>> \o Unescape(SubSeq(s, Len(Entity(c)) + 1, Len(s)))
    ELSE <<Head(s)>> \o Unescape(Tail(s))

\* no markup character in the cell but the "&" that starts an entity
RawFree(cell) ==
    \A j \in 1..Len(cell) :
        /\ cell[j] \notin {"<", ">", "\"", "'"}
        /\ cell[j] = "&" => \E c \in Markup : StartsAt(cell, j, Entity(c))

HeaderRow == <<"<", "t", "r", ">", "<", "t", "h", ">", "V", "a", "r", "i", "a", "b", "l", "e", "<", "/", "t", "h", ">", "<", "t", "h", ">", "V", "a", "l", "u", "e", "<", "/", "t", "h", ">", "<", "/", "t", "r", ">">>

TrTd == <<"<", "t", "r", ">", "<", "t", "d", ">">>

TdTd == <<"<", "/", "t", "d", ">", "<", "t", "d", ">">>

TdTr == <<"<", "/", "t", "d", ">", "<", "/", "t", "r", ">", "\n">>

\* a chunk that is one whole data row: <tr><td> ... </td><td> ... </td></tr>
IsDataRow(chunk) ==
    /\ StartsAt(chunk, 1, TrTd)
    /\ StartsAt(chunk, Len(chunk) - Len(TdTr) + 1, TdTr)
    /\ Occurrences(chunk, TdTd) # {}

\* the data rows on the standard output of p, by their place among its chunks
DataRows(p) == {k \in 1..Len(Out(p)) : IsDataRow(written[p][k])}

\* where the first cell of a data row ends
MidPos(chunk) ==
    CHOOSE k \in Occurrences(chunk, TdTd) :
        \A j \in Occurrences(chunk, TdTd) : k <= j

NameCell(chunk) == SubSeq(chunk, Len(TrTd) + 1, MidPos(chunk) - 1)

ValueCell(chunk) ==
    SubSeq(chunk, MidPos(chunk) + Len(TdTd), Len(chunk) - Len(TdTr))

\* the (name, value) pair a data row shows
RowItem(chunk) == <<Unescape(NameCell(chunk)), Unescape(ValueCell(chunk))>>

\* a < b in case-sensitive lexical order
RECURSIVE LexLess(_, _)
LexLess(a, b) ==
    IF b = <<>> THEN FALSE
    ELSE IF a = <<>> THEN TRUE
    ELSE IF Head(a) = Head(b) THEN LexLess(Tail(a), Tail(b))
    ELSE Ord(Head(a)) < Ord(Head(b))

\* a run of cgi-1.py that had a standard output and has exited with status 0
DumpDone(p) ==
    p \in invs /\ script[p] = "envdump" /\ pc[p] = "done" /\ stdout[p] # "none"

\* the same of cgi-3.py
LargeDone(p) ==
    p \in invs /\ script[p] = "large" /\ pc[p] = "done" /\ stdout[p] # "none"

AllMarkup == <<"<", "&", ">", "\"", "'">>

OpenHtml == <<"<", "h", "t", "m", "l", ">">>

CloseHtml == <<"<", "/", "h", "t", "m", "l", ">">>

CloseHead == <<"<", "/", "h", "e", "a", "d", ">">>

CloseStyle == <<"<", "/", "s", "t", "y", "l", "e", ">">>

CloseH1 == <<"<", "/", "h", "1", ">">>

OpenBody == <<"<", "b", "o", "d", "y", ">">>

CloseBody == <<"<", "/", "b", "o", "d", "y", ">">>

OpenTable == <<"<", "t", "a", "b", "l", "e", ">">>

CloseTable == <<"<", "/", "t", "a", "b", "l", "e", ">">>

OpenTr == <<"<", "t", "r", ">">>

CloseTr == <<"<", "/", "t", "r", ">">>

OpenTd == <<"<", "t", "d", ">">>

CloseTd == <<"<", "/", "t", "d", ">">>

DumpTail == <<"<", "/", "t", "a", "b", "l", "e", ">", "\n", "<", "/", "b", "o", "d", "y", ">", "\n", "<", "/", "h", "t", "m", "l", ">", "\n", "\n">>

\* the chunk ends with t
EndsWith(chunk, t) == StartsAt(chunk, Len(chunk) - Len(t) + 1, t)

\* the last thing p wrote is the closing of its document
Closed(p) ==
    /\ written[p] # <<>>
    /\ IF script[p] = "envdump"
       THEN EndsWith(written[p][Len(written[p])], DumpTail)
       ELSE written[p][Len(written[p])] = <<"</body></html>", "\n">>

\* the standard output of p holds its document through the closing tags
Complete(p) == Closed(p) /\ AllOut(p)

\* t occurs exactly once in s and u exactly once, t before u
OnceEachInOrder(s, t, u) ==
    /\ CountOcc(s, t) = 1 /\ CountOcc(s, u) = 1
    /\ \A i \in Occurrences(s, t) : \A j \in Occurrences(s, u) : i < j

\* every occurrence of t in s lies before every occurrence of u
AllBefore(s, t, u) ==
    \A i \in Occurrences(s, t) : \A j \in Occurrences(s, u) : i < j

DigitValue(c) ==
    CASE c = "0" -> 0 [] c = "1" -> 1 [] c = "2" -> 2 [] c = "3" -> 3
      [] c = "4" -> 4 [] c = "5" -> 5 [] c = "6" -> 6 [] c = "7" -> 7
      [] c = "8" -> 8 [] c = "9" -> 9

\* a decimal numeral without sign or padding
IsNumeral(d) ==
    /\ Len(d) >= 1
    /\ \A j \in 1..Len(d) : d[j] \in {"0", "1", "2", "3", "4", "5", "6", "7", "8", "9"}
    /\ Len(d) > 1 => d[1] # "0"

RECURSIVE NumeralValue(_)
NumeralValue(d) ==
    IF d = <<>> THEN 0
    ELSE 10 * NumeralValue(SubSeq(d, 1, Len(d) - 1)) + DigitValue(d[Len(d)])

\* a chunk that is one whole paragraph line of cgi-3.py
IsLine(chunk) ==
    /\ Len(chunk) >= 4
    /\ chunk[1] = "<p>Line "
    /\ chunk[Len(chunk) - 1] = ": This is a large CGI response test.</p>"
    /\ chunk[Len(chunk)] = "\n"
    /\ IsNumeral(SubSeq(chunk, 2, Len(chunk) - 2))

\* the index a paragraph line carries
LineIndex(chunk) == NumeralValue(SubSeq(chunk, 2, Len(chunk) - 2))

\* the chunks p wrote that start a paragraph line
LineChunks(p) == {k \in 1..Len(written[p]) : written[p][k][1] = "<p>Line "}

\* the document of cgi-1.py for a sorted list of items
DocumentOf(list) ==
    <<PreambleText \o <<NL>>>>
    \o [i \in 1..Len(list) |-> Row(list[i]) \o <<NL>>]
    \o <<ClosingText \o <<NL>>>>

\* what cgi-1.py writes when run alone on environment env
AloneOutput(env) == DocumentOf(sorted(env))

----------------------------------------------------------------------------
(* Claims *)

\* C1: a complete run of cgi-1.py (one that had a standard output and exited
\* with status 0) has put there everything it wrote: exactly one header row
\* and, after it, exactly as many data rows as the environment snapshot has
\* pairs; every pair of the snapshot is shown by exactly one row, whole, and
\* every row shows a pair of the snapshot (no rows at all for the empty
\* snapshot).
RowsMatchSnapshot ==
    \A p \in Invocations : DumpDone(p) =>
        LET E == captured[p]
            s == Stream(p)
            rows == DataRows(p)
        IN  /\ AllOut(p)
            /\ CountOcc(s, HeaderRow) = 1
            /\ CountOcc(s, TrTd) = Len(E)
            /\ \A k \in Occurrences(s, TrTd) :
                   \A h \in Occurrences(s, HeaderRow) : h < k
            /\ Cardinality(rows) = Len(E)
            /\ \A i \in 1..Len(E) :
                   Cardinality({k \in rows : RowItem(written[p][k]) = E[i]}) = 1
            /\ \A k \in rows : \E i \in 1..Len(E) : RowItem(written[p][k]) = E[i]

\* a complete run through a buffered standard output over two variables, one
\* with markup in name and value
RowsMatchSnapshotWitness ==
    \E p \in Invocations :
        /\ DumpDone(p) /\ stdout[p] = "buffered" /\ sent[p] > 0
        /\ Len(captured[p]) = 2
        /\ \E i \in 1..2 : captured[p][i][1] = AllMarkup /\ Len(captured[p][i][2]) > 1

\* C2: the data rows on the standard output are, at every moment and however
\* the run ends, in strictly ascending case-sensitive lexical order of the
\* variable names they show, whatever the values are.
RowsAscendingByName ==
    \A p \in Invocations : (p \in invs /\ script[p] = "envdump") =>
        \A i, j \in DataRows(p) :
            i < j => LexLess(RowItem(written[p][i])[1], RowItem(written[p][j])[1])

\* a complete run whose environment lists "a" before "Z" and gives the
\* greater name the smaller value: the rows are Z, then a
RowsAscendingByNameWitness ==
    \E p \in Invocations :
        /\ DumpDone(p)
        /\ Len(captured[p]) = 2
        /\ captured[p][1][1] = <<"a">> /\ captured[p][2][1] = <<"Z">>
        /\ captured[p][1][2] = <<"1">> /\ captured[p][2][2] # <<"1">>
        /\ DataRows(p) = {2, 3}
        /\ RowItem(written[p][2])[1] = <<"Z">>
        /\ RowItem(written[p][3])[1] = <<"a">>

\* C3: in every data row on the standard output, the name cell and the value
\* cell are each the entity form of the snapshot's name and value: none of
\* < > " ' occurs in a cell, and an & occurs only as the start of an entity.
CellsAreEscaped ==
    \A p \in Invocations : (p \in invs /\ script[p] = "envdump") =>
        \A k \in DataRows(p) :
            LET item == snapshot[p][k - 1]
                row == written[p][k]
            IN  /\ RawFree(NameCell(row)) /\ RawFree(ValueCell(row))
                /\ NameCell(row) = EntityForm(item[1])
                /\ ValueCell(row) = EntityForm(item[2])

\* a row on the standard output for a pair with all five markup characters
\* in name and in value
CellsAreEscapedWitness ==
    \E p \in Invocations : \E k \in DataRows(p) :
        /\ p \in invs /\ script[p] = "envdump"
        /\ \A c \in Markup :
              /\ \E j \in 1..Len(snapshot[p][k - 1][1]) : snapshot[p][k - 1][1][j] = c
              /\ \E j \in 1..Len(snapshot[p][k - 1][2]) : snapshot[p][k - 1][2][j] = c

\* C4: the paragraph lines cgi-3.py writes have the form
\* <p>Line i: This is a large CGI response test.</p>, the first with i = 0
\* and each next one with the index of the one before plus one; a complete
\* run has put on its standard output everything it wrote, with exactly 1000
\* such lines, the n-th carrying n - 1, between the three opening lines and
\* the closing one, which hold no "<p>Line ".
ThousandLinesInOrder ==
    \A p \in Invocations : (p \in invs /\ script[p] = "large") =>
        LET n == Len(written[p]) IN
        /\ (n >= 1 /\ IsLine(written[p][n])) =>
              IF n >= 2 /\ IsLine(written[p][n - 1])
              THEN LineIndex(written[p][n]) = LineIndex(written[p][n - 1]) + 1
              ELSE LineIndex(written[p][n]) = 0
        /\ LargeDone(p) =>
              /\ AllOut(p)
              /\ Cardinality(LineChunks(p)) = 1000
              /\ \E f \in 1..n :
                    /\ \A k \in 1..n : k \in LineChunks(p) <=> (f <= k /\ k < f + 1000)
                    /\ \A k \in f..(f + 999) :
                          IsLine(written[p][k]) /\ LineIndex(written[p][k]) = k - f
              /\ \A k \in 1..n : k \notin LineChunks(p) =>
                    written[p][k] \in { <<"<!DOCTYPE html>", "\n">>,
                                        <<"<html><body>", "\n">>,
                                        <<"<h1>Huge CGI Response</h1>", "\n">>,
                                        <<"</body></html>", "\n">> }

\* a complete run through a buffered standard output whose last line is
\* line 999
ThousandLinesInOrderWitness ==
    \E p \in Invocations :
        /\ LargeDone(p) /\ stdout[p] = "buffered" /\ sent[p] > 0
        /\ \E k \in LineChunks(p) :
              /\ LineIndex(written[p][k]) = 999
              /\ \A j \in LineChunks(p) : j <= k

\* C5: whatever environment and request body each run has, a run of cgi-3.py
\* writes what the complete run before it wrote: what it has written so far
\* is the beginning of that run's output, and when it is complete the two
\* outputs are the same byte for byte.
SameOutputEveryRun ==
    \A p \in Invocations :
        (p \in invs /\ script[p] = "large" /\ prev # <<>>) =>
            /\ Len(written[p]) <= Len(prev[1].body)
            /\ written[p] = SubSeq(prev[1].body, 1, Len(written[p]))
            /\ pc[p] = "done" =>
                  /\ written[p] = prev[1].body
                  /\ sent[p] = prev[1].bytes
                  /\ stdout[p] # "none" => AllOut(p)

\* two complete runs that differed in environment and in request body
SameOutputEveryRunWitness ==
    \E p \in Invocations :
        /\ LargeDone(p) /\ prev # <<>> /\ sent[p] > 0
        /\ prev[1].environ # environ[p]
        /\ prev[1].stdin # stdin[p]

\* C6: when an invocation has ended, with status 0, by an exception or by a
\* failed flush, or is stuck in a write for ever, its standard output holds
\* nothing or the full document through its closing tags.
NeverPartiallyWritten ==
    \A p \in Invocations :
        (p \in invs /\ pc[p] \in Ended) => (sent[p] = 0 \/ Complete(p))

\* C7: on the standard output of cgi-1.py, at every moment and however the
\* run ends, the head, the style, the h1, the opening <table> and the one
\* header row come before every data row, the closing </table>, </body>,
\* </html> come after every data row and only when all rows are there; a
\* complete document opens and closes each of <html>, <body>, <table> exactly
\* once, and every row closes its <tr> and its <td>s.
DocumentOrderedAndBalanced ==
    \A p \in Invocations : (p \in invs /\ script[p] = "envdump") =>
        LET s == Stream(p) IN
        /\ Occurrences(s, TrTd) # {} =>
              /\ \A t \in {CloseHead, CloseStyle, CloseH1, OpenTable, HeaderRow} :
                     CountOcc(s, t) = 1 /\ AllBefore(s, t, TrTd)
        /\ \A t \in {CloseTable, CloseBody, CloseHtml} :
              /\ AllBefore(s, TrTd, t)
              /\ Occurrences(s, t) # {} => CountOcc(s, TrTd) = Len(captured[p])
        /\ \A k \in DataRows(p) :
              /\ OnceEachInOrder(written[p][k], OpenTr, CloseTr)
              /\ CountOcc(written[p][k], OpenTd) = 2
              /\ CountOcc(written[p][k], CloseTd) = 2
              /\ \A i \in Occurrences(written[p][k], OpenTd) :
                     \E j \in Occurrences(written[p][k], CloseTd) :
                         /\ i < j
                         /\ \A m \in Occurrences(written[p][k], OpenTd) : ~(i < m /\ m < j)
        /\ DumpDone(p) =>
              /\ AllOut(p)
              /\ OnceEachInOrder(s, OpenHtml, CloseHtml)
              /\ OnceEachInOrder(s, OpenBody, CloseBody)
              /\ OnceEachInOrder(s, OpenTable, CloseTable)
              /\ AllBefore(s, CloseTable, CloseBody)
              /\ AllBefore(s, CloseBody, CloseHtml)
              /\ CountOcc(s, OpenTr) = Len(captured[p]) + 1
              /\ CountOcc(s, CloseTr) = Len(captured[p]) + 1
              /\ CountOcc(s, OpenTd) = 2 * Len(captured[p])
              /\ CountOcc(s, CloseTd) = 2 * Len(captured[p])

\* a complete document with two data rows
DocumentOrderedAndBalancedWitness ==
    \E p \in Invocations :
        DumpDone(p) /\ Cardinality(DataRows(p)) = 2 /\ Complete(p)

\* C8: an invocation that is scheduled comes to an end, and when its reader
\* reads to the end (every write succeeds) it exits with status 0; the script
\* is through only with its closing tags as the last thing written, for
\* cgi-3.py after exactly 1000 iterations, for cgi-1.py after one row for
\* each item; nothing is written after the closing tags, and nothing happens
\* once the invocation has ended.
EveryInvocationTerminates ==
    /\ <>(\A p \in Invocations : p \in invs => pc[p] \in Ended)
    /\ <>(\A p \in Invocations :
            (p \in invs /\ reader[p] = "reads") => pc[p] = "done")
    /\ [](\A p \in Invocations : (p \in invs /\ pc[p] \in {"exit", "done"}) =>
            /\ stdout[p] # "none" => Closed(p)
            /\ script[p] = "large" =>
                  /\ idx[p] = 1000
                  /\ stdout[p] # "none" => Cardinality(LineChunks(p)) = 1000
            /\ script[p] = "envdump" =>
                  /\ idx[p] = Len(snapshot[p])
                  /\ stdout[p] # "none" => Len(written[p]) = Len(snapshot[p]) + 2
            /\ (pc[p] = "done" /\ stdout[p] # "none") => Complete(p))
    /\ [][\A p \in Invocations : Closed(p) => written'[p] = written[p]]_vars
    /\ [][\A p \in Invocations : pc[p] \in Ended =>
            (written'[p] = written[p] /\ sent'[p] = sent[p] /\ pc'[p] = pc[p])]_vars

\* cgi-3.py has exited with status 0 after the flush at exit put the last
\* of its document on the standard output
EveryInvocationTerminatesWitness ==
    \E p \in Invocations :
        LargeDone(p) /\ stdout[p] = "buffered" /\ idx[p] = 1000 /\ Complete(p)

\* C9: the snapshot is built once and never changes afterwards; no step of
\* the script changes an environment; a complete run has written the rows of
\* its snapshot, whatever another thread did to the environment after the
\* snapshot was built and whatever the other invocation did meanwhile; and
\* when the environment was not changed while line 25 was reading it, that is
\* exactly what the script writes when run alone on that environment.
SnapshotIsolated ==
    /\ [](\A p \in Invocations : DumpDone(p) =>
            /\ AllOut(p)
            /\ written[p] = DocumentOf(snapshot[p])
            /\ ~torn[p] => written[p] = AloneOutput(captured[p]))
    /\ [][\A p \in Invocations :
            (pc'[p] # pc[p] \/ written'[p] # written[p] \/ sent'[p] # sent[p])
                => environ' = environ]_vars
    /\ [][\A p \in Invocations :
            pc[p] # "fetch" => snapshot'[p] = snapshot[p]]_vars

\* both invocations complete, with different outputs, the environment of the
\* first changed after its snapshot was built
SnapshotIsolatedWitness ==
    /\ DumpDone(1) /\ DumpDone(2)
    /\ environ[1] # captured[1] /\ ~torn[1]
    /\ written[1] # written[2]
    /\ captured[1] # <<>>

\* C10: the response of a complete run of cgi-3.py is about 5 MB: within a
\* factor of two of 5,000,000 bytes.
ResponseAboutFiveMegabytes ==
    \A p \in Invocations : LargeDone(p) =>
        /\ sent[p] >= 2500000
        /\ sent[p] <= 10000000

====
